---- MODULE Spec2Model ----
(***************************************************************************)
(* A model of pelegm/movers: stateful streaming transforms ("movers"),     *)
(* the bounded history buffer (base.Deque), the monotonic extremum queues  *)
(* (pushqueue.MaxQueue / MinQueue) and the windowed aggregates built on    *)
(* them.                                                                   *)
(*                                                                         *)
(* Python objects are records, one field per attribute.  A method is an    *)
(* operator from the object (and its arguments) to a result record         *)
(* [self, ret, exc]: the object after the call, the value returned and     *)
(* the name of the exception raised ("" when none was).  Python values     *)
(* are tagged records: None, a number (an exact rational p/q: float        *)
(* rounding is not modelled), a 2-tuple, and the anonymous object() a      *)
(* Deque uses as its "nothing fell out" marker.  Where a method goes on     *)
(* with the result of a call, the rest of the method is an operator of     *)
(* its own that takes that result as a parameter.                          *)
(***************************************************************************)
EXTENDS Integers, Sequences, FiniteSets, TLC

VARIABLES
  cfg,       \* the constructor arguments obj was built with
  obj,       \* the object under test (a mover, or a bare Deque)
  fresh,     \* an instance constructed anew at the last reset, fed the same since
  indep,     \* for a CompoundMover: independent instances of its operands
  hist,      \* the non-reset inputs fed since construction or the last reset
  out,       \* [ret, exc] of the last call on obj
  freshout,  \* [ret, exc] of the last call on fresh
  indepout,  \* results of the last calls on indep
  last,      \* the last operation: "new", "feed", "reset", "assign", "push"
  resets     \* the number of resets so far

vars == <<cfg, obj, fresh, indep, hist, out, freshout, indepout, last, resets>>

----------------------------------------------------------------------------
(* Bounds of the model *)

MaxLen == 2        \* window lengths 1..MaxLen (and the unbounded window)
MaxVal == 2        \* data values 0..MaxVal
MaxFeeds == 3      \* feeds since construction or the last reset
MaxResets == 1     \* resets in a behaviour

----------------------------------------------------------------------------
(* Python values *)

\* float('inf') as a window length, and a deque without a maximal length
inf == -1

None == [t |-> "None"]

\* object(): equal to nothing else, no arithmetic defined on it
object == [t |-> "object"]

Abs(a) == IF a < 0 THEN -a ELSE a

RECURSIVE GCD(_, _)
GCD(a, b) == IF b = 0 THEN a ELSE GCD(b, a % b)

\* the number p/q, q # 0, in lowest terms with a positive denominator
Num(p, q) ==
  LET s == IF q < 0 THEN -1 ELSE 1
      g == GCD(Abs(p), Abs(q))
  IN [t |-> "num", p |-> (s * p) \div g, q |-> (s * q) \div g]

int(i) == Num(i, 1)

tuple(a, b) == [t |-> "tuple", a |-> a, b |-> b]

IsNum(v) == v.t = "num"

add(a, b) == Num(a.p * b.q + b.p * a.q, a.q * b.q)
sub(a, b) == Num(a.p * b.q - b.p * a.q, a.q * b.q)
mul(a, b) == Num(a.p * b.p, a.q * b.q)
\* b is not zero
div(a, b) == Num(a.p * b.q, a.q * b.p)
gt(a, b) == a.p * b.q > b.p * a.q
lt(a, b) == a.p * b.q < b.p * a.q
max(a, b) == IF gt(b, a) THEN b ELSE a

\* x ** 0.5 for x >= 0: exact when x is the square of a rational, and
\* otherwise left as the term "the square root of x"
pow_half(x) ==
  IF (\E r \in 0..x.p : r * r = x.p) /\ (\E k \in 1..x.q : k * k = x.q)
  THEN Num(CHOOSE r \in 0..x.p : r * r = x.p,
           CHOOSE k \in 1..x.q : k * k = x.q)
  ELSE [t |-> "sqrt", x |-> x]

\* what a call gives back
R(self, ret, exc) == [self |-> self, ret |-> ret, exc |-> exc]

----------------------------------------------------------------------------
(* collections.deque *)

\* deque.append on a deque of maximal length maxlen: a full deque drops
\* its leftmost element first
append(items, maxlen, x) ==
  IF maxlen = inf \/ Len(items) < maxlen THEN Append(items, x)
  ELSE IF maxlen = 0 THEN items
  ELSE Append(Tail(items), x)

----------------------------------------------------------------------------
(* base.Deque *)

Deque(iterable, maxlen) ==
  [items |-> iterable, maxlen |-> maxlen, none |-> object]

isfull(self) == Len(self.items) = self.maxlen

\* a push that hands back the newest element of a full deque
Deque_push_newest(self, x) ==
  IF Len(self.items) = self.maxlen
  THEN IF self.items = <<>>
       THEN R(self, x, "")
       ELSE R([self EXCEPT !.items = append(@, self.maxlen, x)],
              self.items[Len(self.items)], "")
  ELSE R([self EXCEPT !.items = append(@, self.maxlen, x)], self.none, "")

Deque_push(self, x) ==
  IF Len(self.items) = self.maxlen
  THEN IF self.items = <<>>
       THEN R(self, x, "")
       ELSE R([self EXCEPT !.items = append(@, self.maxlen, x)],
              self.items[1], "")
  ELSE R([self EXCEPT !.items = append(@, self.maxlen, x)], self.none, "")

----------------------------------------------------------------------------
(* pushqueue *)

\* maxlen is an int, or inf (np.inf) when None or float('inf') was given
DequeQueue(cls, maxlen) ==
  [cls |-> cls, maxlen |-> maxlen, _deque |-> <<>>, _index |-> 0]

DequeQueue_len(self) ==
  IF self.maxlen = inf \/ self._index < self.maxlen
  THEN self._index ELSE self.maxlen

\* the queue is not empty (else KeyError)
head(self) == self._deque[1][1]
tail(self) == self._deque[Len(self._deque)][1]

\* a push that never drops the head for its age
popleft_never(self, d) == d

\* lines 68-69, on the deque d after the append
popleft_old(self, d) ==
  IF self.maxlen # inf /\ self._index - d[1][2] >= self.maxlen
  THEN Tail(d) ELSE d

DequeQueue_push(self, value) ==
  [self EXCEPT
    !._deque = popleft_old(self, append(@, self.maxlen, <<value, self._index>>)),
    !._index = @ + 1]

\* a loop that leaves in the queue a tail equal to value
RECURSIVE MaxQueue_pop_less(_, _)
MaxQueue_pop_less(d, value) ==
  IF d = <<>> THEN d
  ELSE IF lt(d[Len(d)][1], value)
  THEN MaxQueue_pop_less(SubSeq(d, 1, Len(d) - 1), value)
  ELSE d

\* the loop of MaxQueue.push: pop the tail while it is not greater than
\* value; an empty queue ends it (KeyError, passed)
RECURSIVE MaxQueue_pop(_, _)
MaxQueue_pop(d, value) ==
  IF d = <<>> THEN d
  ELSE IF ~gt(d[Len(d)][1], value)
  THEN MaxQueue_pop(SubSeq(d, 1, Len(d) - 1), value)
  ELSE d

MaxQueue_push(self, value) ==
  DequeQueue_push([self EXCEPT !._deque = MaxQueue_pop(@, value)], value)

\* the loop of MinQueue.push
RECURSIVE MinQueue_pop(_, _)
MinQueue_pop(d, value) ==
  IF d = <<>> THEN d
  ELSE IF ~lt(d[Len(d)][1], value)
  THEN MinQueue_pop(SubSeq(d, 1, Len(d) - 1), value)
  ELSE d

MinQueue_push(self, value) ==
  DequeQueue_push([self EXCEPT !._deque = MinQueue_pop(@, value)], value)

----------------------------------------------------------------------------
(* base.Mover: attribute access.  `patient` is a property of              *)
(* CompositeMover and `triggered` a property of EMA; everywhere else they  *)
(* are plain attributes.                                                   *)

RECURSIVE getattr_patient(_)
getattr_patient(self) ==
  IF self.cls = "CompositeMover"
  THEN \E i \in DOMAIN self.movers : getattr_patient(self.movers[i])
  ELSE self.patient

RECURSIVE setattr_patient(_, _)
setattr_patient(self, value) ==
  IF self.cls = "CompositeMover"
  THEN [self EXCEPT !.movers =
          [i \in DOMAIN self.movers |-> setattr_patient(self.movers[i], value)]]
  ELSE [self EXCEPT !.patient = value]

\* an EMA triggered one update early
getattr_triggered_early(self) ==
  IF self.cls = "EMA" THEN self.count >= self._n ELSE self.triggered

getattr_triggered(self) ==
  IF self.cls = "EMA" THEN self.count > self._n ELSE self.triggered

setattr_triggered(self, value) ==
  IF self.cls = "EMA"
  THEN IF ~value THEN [self EXCEPT !.count = 0] ELSE self
  ELSE [self EXCEPT !.triggered = value]

\* Mover.__init__ up to the call of self._zero(), which every constructor
\* below makes with the _zero of its class
Mover_init(self, none, patient) ==
  setattr_triggered(setattr_patient([self EXCEPT !.none = none], patient),
                    FALSE)

----------------------------------------------------------------------------
(* math.MovingSum *)

MovingSum_zero(self) ==
  R([self EXCEPT !._deque = Deque(<<>>, self.n), !._sum = int(0)], None, "")

\* a sum that forgets what fell out of the window
MovingSum_sum_addonly(self, value, p) ==
  R([self EXCEPT !._deque = p.self, !._sum = add(@, value)],
    add(self._sum, value), "")

\* lines 123-131, p the result of the push
MovingSum_sum(self, value, p) ==
  IF IsNum(p.ret)
  THEN R([self EXCEPT !._deque = p.self,
                      !._sum = add(@, sub(value, p.ret))],
         add(self._sum, sub(value, p.ret)), "")
  ELSE R([self EXCEPT !._deque = p.self, !._sum = add(@, value)],
         add(self._sum, value), "")

MovingSum_eat(self, value) ==
  MovingSum_sum(self, value, Deque_push(self._deque, value))

MovingSum(n) ==
  MovingSum_zero(
    Mover_init([cls |-> "MovingSum", n |-> n, none |-> None,
                patient |-> FALSE, triggered |-> FALSE, _deque |-> None,
                _sum |-> None], None, FALSE)).self

----------------------------------------------------------------------------
(* math.MovingMax, math.MovingMin *)

MovingMax_zero(self) ==
  R([self EXCEPT !._queue = DequeQueue("MaxQueue", self.n)], None, "")

\* line 37, q the queue after the push
MovingMax_max(self, q) == R([self EXCEPT !._queue = q], head(q), "")

MovingMax_eat(self, value) ==
  MovingMax_max(self, MaxQueue_push(self._queue, value))

\* a MovingMax that keeps the patience it was asked for
MovingMax_patient(n, patient) ==
  MovingMax_zero(
    Mover_init([cls |-> "MovingMax", n |-> n, none |-> None,
                patient |-> FALSE, triggered |-> FALSE, _queue |-> None],
               None, patient)).self

\* kwargs.update(patient=False)
MovingMax(n, patient) ==
  MovingMax_zero(
    Mover_init([cls |-> "MovingMax", n |-> n, none |-> None,
                patient |-> FALSE, triggered |-> FALSE, _queue |-> None],
               None, FALSE)).self

MovingMin_zero(self) ==
  R([self EXCEPT !._queue = DequeQueue("MinQueue", self.n)], None, "")

MovingMin_min(self, q) == R([self EXCEPT !._queue = q], head(q), "")

MovingMin_eat(self, value) ==
  MovingMin_min(self, MinQueue_push(self._queue, value))

MovingMin(n, patient) ==
  MovingMin_zero(
    Mover_init([cls |-> "MovingMin", n |-> n, none |-> None,
                patient |-> FALSE, triggered |-> FALSE, _queue |-> None],
               None, FALSE)).self

----------------------------------------------------------------------------
(* math.MovingRatio.  The values fed are ints, and `/` between ints is     *)
(* the floor division of Python 2.                                         *)

MovingRatio_zero(self) ==
  R([self EXCEPT !._deque = Deque(<<>>, self.n)], None, "")

\* lines 91-95, p the result of the push
MovingRatio_ratio(self, value, p) ==
  IF ~IsNum(p.ret) THEN R([self EXCEPT !._deque = p.self], int(1), "")
  ELSE IF p.ret = int(0)
  THEN R([self EXCEPT !._deque = p.self], None, "ZeroDivisionError")
  ELSE R([self EXCEPT !._deque = p.self],
         int((value.p * p.ret.q) \div (value.q * p.ret.p)), "")

MovingRatio_eat(self, value) ==
  MovingRatio_ratio(self, value, Deque_push(self._deque, value))

MovingRatio(n, patient) ==
  MovingRatio_zero(
    Mover_init([cls |-> "MovingRatio", n |-> n, none |-> None,
                patient |-> FALSE, triggered |-> FALSE, _deque |-> None],
               None, patient)).self

----------------------------------------------------------------------------
(* base.Delayer *)

Delayer_zero(self) ==
  R([self EXCEPT !._deque = Deque(<<>>, self.n)], None, "")

\* a Delayer that gives the newest value while nothing has fallen out
Delayer_out_newest(self, p) ==
  IF p.ret = p.self.none
  THEN R([self EXCEPT !._deque = p.self],
         p.self.items[Len(p.self.items)], "")
  ELSE R([self EXCEPT !._deque = p.self, !.triggered = TRUE], p.ret, "")

\* lines 190-194, p the result of the push
Delayer_out(self, p) ==
  IF p.ret = p.self.none
  THEN R([self EXCEPT !._deque = p.self], p.self.items[1], "")
  ELSE R([self EXCEPT !._deque = p.self, !.triggered = TRUE], p.ret, "")

Delayer_eat(self, value) == Delayer_out(self, Deque_push(self._deque, value))

Delayer(n, patient) ==
  Delayer_zero(
    Mover_init([cls |-> "Delayer", n |-> n, none |-> None, patient |-> FALSE,
                triggered |-> FALSE, _deque |-> None], None, patient)).self

----------------------------------------------------------------------------
(* base.ConstantMover *)

ConstantMover_zero(self) == R(self, None, "")

ConstantMover_eat(self, value) == R(self, self.value, "")

ConstantMover(value) ==
  ConstantMover_zero(
    Mover_init([cls |-> "ConstantMover", value |-> value, none |-> None,
                patient |-> FALSE, triggered |-> FALSE], None, FALSE)).self

\* a mover is callable, a number is not
movify(x) == IF "cls" \in DOMAIN x THEN x ELSE ConstantMover(x)

----------------------------------------------------------------------------
(* ma.EMA *)

EMA_zero(self) == R([self EXCEPT !._mean = None, !._var = None], None, "")

\* a mean with the two weights exchanged
EMA_new_mean_swapped(self, value) ==
  add(mul(sub(int(1), self._alpha), value), mul(self._alpha, self._mean))

\* lines 71-79: the mean and the variance from the last ones
EMA_new_mean(self, value) ==
  add(mul(self._alpha, value), mul(sub(int(1), self._alpha), self._mean))

EMA_new_var(self, value, new_mean) ==
  add(mul(mul(self._alpha, sub(value, new_mean)), sub(value, self._mean)),
      mul(sub(int(1), self._alpha), self._var))

\* lines 90-95
EMA_return(self) ==
  IF self.mstd THEN R(self, tuple(self._mean, pow_half(self._var)), "")
  ELSE R(self, self._mean, "")

EMA_update(self, value) ==
  IF IsNum(self._mean)
  THEN EMA_return(
         [self EXCEPT
           !._var = IF self.mstd
                    THEN EMA_new_var(self, value, EMA_new_mean(self, value))
                    ELSE @,
           !._mean = EMA_new_mean(self, value)])
  ELSE EMA_return(
         [self EXCEPT !._mean = value,
                      !._var = IF self.mstd THEN int(0) ELSE @])

EMA_eat(self, value) == EMA_update([self EXCEPT !.count = @ + 1], value)

EMA(n, mstd, patient) ==
  EMA_zero(
    Mover_init([cls |-> "EMA", _n |-> n, _alpha |-> div(int(2), int(n + 1)),
                mstd |-> mstd, none |-> None, patient |-> FALSE, count |-> 0,
                _mean |-> None, _var |-> None,
                _mover_kwargs |-> [patient |-> patient]], None, patient)).self

\* a copy that starts its count of updates anew
EMA_copy_nocount(self) ==
  [EMA(self._n, self.mstd, self._mover_kwargs.patient) EXCEPT
     !._mean = self._mean, !._var = self._var]

\* EMA.__copy__
EMA_copy(self) ==
  [EMA(self._n, self.mstd, self._mover_kwargs.patient) EXCEPT
     !.count = self.count, !._mean = self._mean, !._var = self._var]

----------------------------------------------------------------------------
(* ma.MA.  A fed value is a number, or a tuple (value, weight).            *)

MA_zero(self) ==
  R([self EXCEPT !._deque = Deque(<<>>, self.n), !._len = 0,
                 !._sum = int(0), !._wsum = int(0),
                 !._ssum = int(0), !._wssum = int(0)], None, "")

\* lines 155-166
MA_mean(self) ==
  IF self._wsum = int(0) THEN R(self, None, "ZeroDivisionError")
  ELSE IF self.mstd
  THEN R(self,
         tuple(div(self._sum, self._wsum),
               pow_half(max(div(sub(mul(self._wssum, self._wsum),
                                    mul(self._sum, self._sum)),
                                mul(self._wsum, self._wsum)),
                            int(0)))),
         "")
  ELSE R(self, div(self._sum, self._wsum), "")

\* sums whose weighted square sum keeps what fell out of the window
MA_sums_keep(self, value, weight, p) ==
  IF p.ret.t = "tuple"
  THEN [self EXCEPT
         !._deque = p.self,
         !._sum = add(@, sub(mul(value, weight), mul(p.ret.a, p.ret.b))),
         !._wsum = add(@, sub(weight, p.ret.b)),
         !._ssum = IF self.mstd
                   THEN add(@, sub(mul(value, value), mul(p.ret.a, p.ret.a)))
                   ELSE @,
         !._wssum = IF self.mstd
                    THEN add(@, mul(weight, mul(value, value)))
                    ELSE @,
         !._triggered = TRUE]
  ELSE [self EXCEPT
         !._deque = p.self,
         !._sum = add(@, mul(value, weight)),
         !._wsum = add(@, weight),
         !._ssum = IF self.mstd THEN add(@, mul(value, value)) ELSE @,
         !._wssum = IF self.mstd
                    THEN add(@, mul(weight, mul(value, value)))
                    ELSE @,
         !._len = @ + 1]

\* lines 134-152, p the result of the push: a tuple fell out of the deque,
\* or unpacking the marker raised TypeError
MA_sums(self, value, weight, p) ==
  IF p.ret.t = "tuple"
  THEN [self EXCEPT
         !._deque = p.self,
         !._sum = add(@, sub(mul(value, weight), mul(p.ret.a, p.ret.b))),
         !._wsum = add(@, sub(weight, p.ret.b)),
         !._ssum = IF self.mstd
                   THEN add(@, sub(mul(value, value), mul(p.ret.a, p.ret.a)))
                   ELSE @,
         !._wssum = IF self.mstd
                    THEN add(@, sub(mul(weight, mul(value, value)),
                                    mul(p.ret.b, mul(p.ret.a, p.ret.a))))
                    ELSE @,
         !._triggered = TRUE]
  ELSE [self EXCEPT
         !._deque = p.self,
         !._sum = add(@, mul(value, weight)),
         !._wsum = add(@, weight),
         !._ssum = IF self.mstd THEN add(@, mul(value, value)) ELSE @,
         !._wssum = IF self.mstd
                    THEN add(@, mul(weight, mul(value, value)))
                    ELSE @,
         !._len = @ + 1]

\* lines 128-132 have split the fed value
MA_push(self, value, weight) ==
  MA_mean(MA_sums(self, value, weight,
                  Deque_push(self._deque, tuple(value, weight))))

MA_eat(self, value) ==
  IF value.t = "tuple" THEN MA_push(self, value.a, value.b)
  ELSE MA_push(self, value, int(1))

MA(n, mstd, patient) ==
  MA_zero(
    Mover_init([cls |-> "MA", n |-> n, mstd |-> mstd, none |-> None,
                patient |-> FALSE, triggered |-> FALSE, _triggered |-> FALSE,
                _deque |-> None, _len |-> 0, _sum |-> None, _wsum |-> None,
                _ssum |-> None, _wssum |-> None], None, patient)).self

----------------------------------------------------------------------------
(* ma.GMA.  A fed value is an int: a power of two, or a non-positive one.  *)
(* The logarithm of 2^k is kept exactly, as the number k that stands for   *)
(* k * log 2; what MA computes from such numbers (a weighted mean, a       *)
(* standard deviation) is of degree one in them, so that a result x        *)
(* stands for x * log 2 and its exponential is 2^x.                        *)

\* math.log(value), value > 0
log(value) == int(CHOOSE k \in 0..value.p : 2^k = value.p)

\* math.exp(x): a power of two, kept as the term 2^x when x is no natural
\* number
exp(x) ==
  IF IsNum(x) /\ x.q = 1 /\ x.p >= 0 THEN int(2^(x.p))
  ELSE [t |-> "exp2", x |-> x]

\* lines 180-182, r the result of MA._eat
GMA_exp(self, r) ==
  IF r.exc # "" THEN r
  ELSE IF ~self.mstd THEN R(r.self, exp(r.ret), "")
  ELSE R(r.self, tuple(exp(r.ret.a), exp(r.ret.b)), "")

\* a GMA that buffers an observation before it finds the value out of the
\* domain of the logarithm
GMA_eat_late(self, value) ==
  IF ~gt(value, int(0)) THEN R(MA_eat(self, int(0)).self, None, "ValueError")
  ELSE GMA_exp(self, MA_eat(self, log(value)))

\* math.log raises ValueError for a value that is not positive
GMA_eat(self, value) ==
  IF ~gt(value, int(0)) THEN R(self, None, "ValueError")
  ELSE GMA_exp(self, MA_eat(self, log(value)))

GMA(n, mstd, patient) == [MA(n, mstd, patient) EXCEPT !.cls = "GMA"]

----------------------------------------------------------------------------
(* mlr.MLRS.  _len, _x and _xx are ints; _slope_den does not exist (None   *)
(* here) until the first update sets it.                                   *)

MLRS_zero(self) ==
  R([self EXCEPT !._deque = Deque(<<>>, self._n), !._len = 0,
                 !._x = 0, !._y = int(0), !._xy = int(0), !._xx = 0],
    None, "")

\* line 59
MLRS_slope(self) ==
  div(sub(mul(int(self._len), self._xy), mul(int(self._x), self._y)),
      self._slope_den)

\* lines 58-66
MLRS_return(self) ==
  IF self._slope_den = None THEN R(self, None, "AttributeError")
  ELSE IF self._slope_den = int(0) THEN R(self, None, "ZeroDivisionError")
  ELSE IF self.mlri
  THEN R(self,
         tuple(MLRS_slope(self),
               div(sub(self._y, mul(MLRS_slope(self), int(self._x))),
                   int(self._len))),
         "")
  ELSE R(self, MLRS_slope(self), "")

\* an update that goes on to the slope with a single observation
MLRS_den_eager(self) ==
  MLRS_return(
    [self EXCEPT
      !._slope_den = int(self._len * self._xx - self._x * self._x)])

\* lines 52-56
MLRS_den(self) ==
  IF self._len <= 1
  THEN R([self EXCEPT
           !._slope_den = int(self._len * self._xx - self._x * self._x)],
         None, "")
  ELSE MLRS_return(
         [self EXCEPT
           !._slope_den = int(self._len * self._xx - self._x * self._x)])

\* an update of _y that keeps the value fallen out of the window
MLRS_sums_keepy(self, value, p) ==
  IF IsNum(p.ret)
  THEN MLRS_return(
         [self EXCEPT
           !._deque = p.self,
           !._xy = add(@, add(add(sub(int(0), self._y), p.ret),
                              mul(int(self._len - 1), value))),
           !._y = add(@, value)])
  ELSE MLRS_den(
         [self EXCEPT
           !._deque = p.self,
           !._x = @ + self._len,
           !._y = add(@, value),
           !._xy = add(@, mul(int(self._len), value)),
           !._xx = @ + self._len * self._len,
           !._len = @ + 1])

\* an update of _xy that forgets the value fallen out of the window
MLRS_sums_nofallen(self, value, p) ==
  IF IsNum(p.ret)
  THEN MLRS_return(
         [self EXCEPT
           !._deque = p.self,
           !._xy = add(@, add(sub(int(0), self._y),
                              mul(int(self._len - 1), value))),
           !._y = add(@, sub(value, p.ret))])
  ELSE MLRS_den(
         [self EXCEPT
           !._deque = p.self,
           !._x = @ + self._len,
           !._y = add(@, value),
           !._xy = add(@, mul(int(self._len), value)),
           !._xx = @ + self._len * self._len,
           !._len = @ + 1])

\* lines 41-51, p the result of the push
MLRS_sums(self, value, p) ==
  IF IsNum(p.ret)
  THEN MLRS_return(
         [self EXCEPT
           !._deque = p.self,
           !._xy = add(@, add(add(sub(int(0), self._y), p.ret),
                              mul(int(self._len - 1), value))),
           !._y = add(@, sub(value, p.ret))])
  ELSE MLRS_den(
         [self EXCEPT
           !._deque = p.self,
           !._x = @ + self._len,
           !._y = add(@, value),
           !._xy = add(@, mul(int(self._len), value)),
           !._xx = @ + self._len * self._len,
           !._len = @ + 1])

MLRS_eat(self, value) ==
  MLRS_sums(self, value, Deque_push(self._deque, value))

\* __init__ calls _zero a second time
MLRS(n, mlri, patient) ==
  MLRS_zero(MLRS_zero(
    Mover_init([cls |-> "MLRS", _n |-> n, mlri |-> mlri, none |-> None,
                patient |-> FALSE, triggered |-> FALSE, _deque |-> None,
                _len |-> 0, _x |-> 0, _y |-> None, _xy |-> None,
                _xx |-> 0, _slope_den |-> None], None, patient)).self).self

----------------------------------------------------------------------------
(* ma.IH_EMA.  A fed value is a tuple (time, value) of ints, tau is 1 and  *)
(* time never runs backwards, so that mu = exp(-alpha) is a power u^k of   *)
(* u = 1/e with k a natural number.  u is transcendental: a mean is kept   *)
(* exactly, as the polynomial in u with the rational coefficients c[1],    *)
(* c[2], ... (c[i] the coefficient of u^(i-1)), no trailing zero.          *)

RECURSIVE poly_strip(_)
poly_strip(c) ==
  IF c # <<>> /\ c[Len(c)] = int(0) THEN poly_strip(SubSeq(c, 1, Len(c) - 1))
  ELSE c

poly(c) == [t |-> "poly", c |-> poly_strip(c)]

poly_coef(c, i) == IF i <= Len(c) THEN c[i] ELSE int(0)

\* lines 208-210: u^k * mean + (1 - u^k) * value, k = alpha
IH_EMA_new_mean(k, mean, value) ==
  poly([i \in 1..(Len(mean.c) + k + 1) |->
          add(add(IF i > k THEN poly_coef(mean.c, i - k) ELSE int(0),
                  IF i = 1 THEN value ELSE int(0)),
              IF i = k + 1 THEN sub(int(0), value) ELSE int(0))])

IH_EMA_zero(self) ==
  R([self EXCEPT !._time = 0, !._mean = None, !._var = None], None, "")

\* a first observation that returns its mean though mstd was asked for
IH_EMA_return_first(old, self) ==
  IF self.mstd /\ old._mean # None THEN R(old, None, "NotImplementedError")
  ELSE R(self, self._mean, "")

\* lines 213-234, after the mean was set or not
IH_EMA_return(old, self) ==
  IF self.mstd
  THEN IF old._mean = None THEN R(self, None, "NotImplementedError")
       ELSE R(old, None, "NotImplementedError")
  ELSE R(self, self._mean, "")

IH_EMA_update(self, time, value) ==
  IF self._mean # None
  THEN IH_EMA_return(self,
         [self EXCEPT
           !._time = time,
           !._mean = IH_EMA_new_mean((time - self._time) \div self.tau,
                                     @, value)])
  ELSE IH_EMA_return(self,
         [self EXCEPT !._time = time, !._mean = poly(<<value>>)])

IH_EMA_eat(self, value) == IH_EMA_update(self, value.a.p, value.b)

\* the class attribute triggered = True is hidden by the instance
\* attribute Mover.__init__ sets
IH_EMA(tau, mstd, patient) ==
  IH_EMA_zero(
    Mover_init([cls |-> "IH_EMA", tau |-> tau, mstd |-> mstd, none |-> None,
                patient |-> FALSE, triggered |-> TRUE, _time |-> 0,
                _mean |-> None, _var |-> None,
                _mover_kwargs |-> [patient |-> patient]], None, patient)).self

\* IH_EMA.__copy__
IH_EMA_copy(self) ==
  [IH_EMA(self.tau, self.mstd, self._mover_kwargs.patient) EXCEPT
     !._mean = self._mean, !._var = self._var]

----------------------------------------------------------------------------
(* base.Mover.__call__, and the two combinators, which call their movers   *)

RECURSIVE Mover_call(_, _)

\* operator.add, sub, mul (two arguments) and neg (one) on what the movers
\* returned; None is no operand of any of them
apply(self, function, args) ==
  IF \E i \in DOMAIN args : ~IsNum(args[i]) THEN R(self, None, "TypeError")
  ELSE R(self,
         CASE function = "add" -> add(args[1], args[2])
           [] function = "sub" -> sub(args[1], args[2])
           [] function = "mul" -> mul(args[1], args[2])
           [] function = "neg" -> sub(int(0), args[1]),
         "")

\* [m(value) for m in movers], from the i-th mover on, r the result of the
\* call of the one before: the movers after the calls, what they returned,
\* and the exception that ended it
RECURSIVE call_each(_, _, _, _, _)
call_each(movers, i, rets, value, r) ==
  IF r.exc # ""
  THEN [movers |-> [movers EXCEPT ![i - 1] = r.self], rets |-> rets,
        exc |-> r.exc]
  ELSE IF i > Len(movers)
  THEN [movers |-> [movers EXCEPT ![i - 1] = r.self],
        rets |-> Append(rets, r.ret), exc |-> ""]
  ELSE call_each([movers EXCEPT ![i - 1] = r.self], i + 1,
                 Append(rets, r.ret), value, Mover_call(movers[i], value))

\* line 164, c what the calls gave
CompoundMover_apply(self, c) ==
  IF c.exc # "" THEN R([self EXCEPT !.movers = c.movers], None, c.exc)
  ELSE apply([self EXCEPT !.movers = c.movers], self.function, c.rets)

CompoundMover_eat(self, value) ==
  CompoundMover_apply(self,
    call_each(self.movers, 2, <<>>, value, Mover_call(self.movers[1], value)))

CompoundMover_zero(self) == R(self, None, "")

CompoundMover(function, movers) ==
  CompoundMover_zero(
    Mover_init([cls |-> "CompoundMover", function |-> function,
                movers |-> [i \in DOMAIN movers |-> movify(movers[i])],
                none |-> None, patient |-> FALSE, triggered |-> FALSE],
               None, FALSE)).self

\* a loop that does not call the movers that come after one that returned
\* None
RECURSIVE chain_skip(_, _, _)
chain_skip(movers, i, r) ==
  IF r.exc # ""
  THEN [movers |-> [movers EXCEPT ![i - 1] = r.self], ret |-> None,
        exc |-> r.exc]
  ELSE IF i > Len(movers)
  THEN [movers |-> [movers EXCEPT ![i - 1] = r.self], ret |-> r.ret,
        exc |-> ""]
  ELSE IF r.ret = None
  THEN chain_skip([movers EXCEPT ![i - 1] = r.self], i + 1,
                  R(movers[i], None, ""))
  ELSE chain_skip([movers EXCEPT ![i - 1] = r.self], i + 1,
                  Mover_call(movers[i], r.ret))

\* for mover in movers: value = mover(value), from the i-th mover on, r
\* the result of the call of the one before
RECURSIVE chain(_, _, _)
chain(movers, i, r) ==
  IF r.exc # ""
  THEN [movers |-> [movers EXCEPT ![i - 1] = r.self], ret |-> None,
        exc |-> r.exc]
  ELSE IF i > Len(movers)
  THEN [movers |-> [movers EXCEPT ![i - 1] = r.self], ret |-> r.ret,
        exc |-> ""]
  ELSE chain([movers EXCEPT ![i - 1] = r.self], i + 1,
             Mover_call(movers[i], r.ret))

\* line 142, c what the loop gave
CompositeMover_return(self, c) ==
  R([self EXCEPT !.movers = c.movers], c.ret, c.exc)

CompositeMover_eat(self, value) ==
  CompositeMover_return(self,
    chain(self.movers, 2, Mover_call(self.movers[1], value)))

CompositeMover_zero(self) == CompositeMover_eat(self, None)

CompositeMover(movers) ==
  CompositeMover_zero(
    Mover_init([cls |-> "CompositeMover", movers |-> movers, none |-> None,
                triggered |-> FALSE], None, FALSE)).self

\* mover << num
lshift(self, num) == CompositeMover(<<self, Delayer(num, TRUE)>>)

\* self._eat(value), by the class of self
eat(self, value) ==
  CASE self.cls = "MovingSum" -> MovingSum_eat(self, value)
    [] self.cls = "MovingMax" -> MovingMax_eat(self, value)
    [] self.cls = "MovingMin" -> MovingMin_eat(self, value)
    [] self.cls = "MovingRatio" -> MovingRatio_eat(self, value)
    [] self.cls = "Delayer" -> Delayer_eat(self, value)
    [] self.cls = "ConstantMover" -> ConstantMover_eat(self, value)
    [] self.cls = "EMA" -> EMA_eat(self, value)
    [] self.cls = "MA" -> MA_eat(self, value)
    [] self.cls = "GMA" -> GMA_eat(self, value)
    [] self.cls = "MLRS" -> MLRS_eat(self, value)
    [] self.cls = "IH_EMA" -> IH_EMA_eat(self, value)
    [] self.cls = "CompoundMover" -> CompoundMover_eat(self, value)
    [] self.cls = "CompositeMover" -> CompositeMover_eat(self, value)

\* self._zero(), by the class of self
zero(self) ==
  CASE self.cls = "MovingSum" -> MovingSum_zero(self)
    [] self.cls = "MovingMax" -> MovingMax_zero(self)
    [] self.cls = "MovingMin" -> MovingMin_zero(self)
    [] self.cls = "MovingRatio" -> MovingRatio_zero(self)
    [] self.cls = "Delayer" -> Delayer_zero(self)
    [] self.cls = "ConstantMover" -> ConstantMover_zero(self)
    [] self.cls = "EMA" -> EMA_zero(self)
    [] self.cls = "MA" -> MA_zero(self)
    [] self.cls = "GMA" -> MA_zero(self)
    [] self.cls = "MLRS" -> MLRS_zero(self)
    [] self.cls = "IH_EMA" -> IH_EMA_zero(self)
    [] self.cls = "CompoundMover" -> CompoundMover_zero(self)
    [] self.cls = "CompositeMover" -> CompositeMover_zero(self)

\* Mover.copy: self.__copy__(), which EMA and IH_EMA define
copy(self) ==
  CASE self.cls = "EMA" -> R(self, EMA_copy(self), "")
    [] self.cls = "IH_EMA" -> R(self, IH_EMA_copy(self), "")
    [] OTHER -> R(self, None, "AttributeError")

\* lines 99-100, e the result of self._eat(value)
emit(e) ==
  IF e.exc # "" THEN e
  ELSE IF (~getattr_patient(e.self)) \/ getattr_triggered(e.self) THEN e
  ELSE R(e.self, None, "")

\* a reset that leaves triggered as it was
Mover_call_keeps_triggered(self, value) ==
  IF value = self.none THEN zero(self) ELSE emit(eat(self, value))

Mover_call(self, value) ==
  IF value = self.none
  THEN zero(setattr_triggered(self, FALSE))
  ELSE emit(eat(self, value))

----------------------------------------------------------------------------
(* The caller: it constructs an object from a configuration cfg, feeds it  *)
(* values and the reset signal, and next to it a second instance built     *)
(* anew from cfg at every reset.                                           *)

RECURSIVE New(_)
New(c) ==
  CASE c.cls = "MovingSum" -> MovingSum(c.n)
    [] c.cls = "MovingMax" -> MovingMax(c.n, c.patient)
    [] c.cls = "MovingMin" -> MovingMin(c.n, c.patient)
    [] c.cls = "MovingRatio" -> MovingRatio(c.n, c.patient)
    [] c.cls = "Delayer" -> Delayer(c.n, c.patient)
    [] c.cls = "EMA" -> EMA(c.n, c.mstd, c.patient)
    [] c.cls = "MA" -> MA(c.n, c.mstd, c.patient)
    [] c.cls = "GMA" -> GMA(c.n, c.mstd, c.patient)
    [] c.cls = "MLRS" -> MLRS(c.n, c.mlri, c.patient)
    [] c.cls = "IH_EMA" -> IH_EMA(c.tau, c.mstd, c.patient)
    [] c.cls = "const" -> c.value
    [] c.cls = "CompoundMover" ->
         CompoundMover(c.function, [i \in DOMAIN c.movers |-> New(c.movers[i])])
    [] c.cls = "CompositeMover" ->
         CompositeMover([i \in DOMAIN c.movers |-> New(c.movers[i])])
    [] c.cls = "lshift" -> lshift(New(c.mover), c.num)

Vals == {int(v) : v \in 0..MaxVal}
Lens == 1..MaxLen
Windows == Lens \cup {inf}

PlainCfgs ==
  {[cls |-> "MovingSum", n |-> n] : n \in Windows}
  \cup {[cls |-> c, n |-> n, patient |-> b] :
          c \in {"MovingMax", "MovingMin"}, n \in Windows, b \in BOOLEAN}
  \cup {[cls |-> c, n |-> n, patient |-> b] :
          c \in {"Delayer", "MovingRatio"}, n \in Lens, b \in BOOLEAN}
  \cup {[cls |-> "EMA", n |-> n, mstd |-> m, patient |-> b] :
          n \in Lens, m \in BOOLEAN, b \in BOOLEAN}
  \cup {[cls |-> "MA", n |-> n, mstd |-> m, patient |-> b] :
          n \in Windows, m \in BOOLEAN, b \in BOOLEAN}
  \cup {[cls |-> "MLRS", n |-> n, mlri |-> m, patient |-> b] :
          n \in Windows, m \in BOOLEAN, b \in BOOLEAN}
  \cup {[cls |-> "IH_EMA", tau |-> 1, mstd |-> m, patient |-> b] :
          m \in BOOLEAN, b \in BOOLEAN}

\* what the caller may feed a mover built from c, in state o
Inputs(c, o) ==
  CASE c.cls = "MA" ->
         Vals \cup {tuple(v, int(0)) : v \in Vals}
              \cup {tuple(int(MaxVal), int(2))}
    [] c.cls = "IH_EMA" ->
         {tuple(int(o._time + d), v) : d \in {0, 1}, v \in Vals}
    [] c.cls = "GMA" ->
         {int(-1), int(0)} \cup {int(2^k) : k \in 0..MaxVal}
    [] OTHER -> Vals

Result(r) == [ret |-> r.ret, exc |-> r.exc]
NoCall == [ret |-> None, exc |-> ""]

\* independent instances of the operands of a CompoundMover
Operands(c) ==
  IF c.cls = "CompoundMover"
  THEN [i \in DOMAIN c.movers |-> movify(New(c.movers[i]))]
  ELSE <<>>

InitObj ==
  /\ obj = New(cfg)
  /\ fresh = obj
  /\ indep = Operands(cfg)
  /\ hist = <<>>
  /\ out = NoCall
  /\ freshout = NoCall
  /\ indepout = <<>>
  /\ last = "new"
  /\ resets = 0

Init == cfg \in PlainCfgs /\ InitObj

\* the call o(v), for each of the instances
CallAll(v) ==
  /\ \E r \in {Mover_call(obj, v)} : obj' = r.self /\ out' = Result(r)
  /\ \E g \in {[i \in DOMAIN indep |-> Mover_call(indep[i], v)]} :
       /\ indep' = [i \in DOMAIN indep |-> g[i].self]
       /\ indepout' = [i \in DOMAIN indep |-> Result(g[i])]

Feed ==
  /\ Len(hist) < MaxFeeds
  /\ \E v \in Inputs(cfg, obj) :
       /\ CallAll(v)
       /\ \E f \in {Mover_call(fresh, v)} :
            fresh' = f.self /\ freshout' = Result(f)
       /\ hist' = Append(hist, v)
  /\ last' = "feed"
  /\ UNCHANGED <<cfg, resets>>

Reset ==
  /\ resets < MaxResets
  /\ CallAll(None)
  /\ fresh' = New(cfg)
  /\ freshout' = NoCall
  /\ hist' = <<>>
  /\ last' = "reset"
  /\ resets' = resets + 1
  /\ UNCHANGED cfg

Next == Feed \/ Reset

Spec == Init /\ [][Next]_vars

----------------------------------------------------------------------------
(* The caller of a bare base.Deque: it pushes values and keeps what each   *)
(* push returned.                                                          *)

InitDeque ==
  /\ cfg \in {[cls |-> "Deque", maxlen |-> m] : m \in Lens}
  /\ obj = Deque(<<>>, cfg.maxlen)
  /\ fresh = obj
  /\ indep = <<>>
  /\ hist = <<>>
  /\ out = NoCall
  /\ freshout = NoCall
  /\ indepout = <<>>
  /\ last = "new"
  /\ resets = 0

Push ==
  /\ Len(hist) <= MaxFeeds
  /\ \E v \in Vals :
       /\ \E r \in {Deque_push(obj, v)} : obj' = r.self /\ out' = Result(r)
       /\ hist' = Append(hist, v)
  /\ last' = "push"
  /\ UNCHANGED <<cfg, fresh, indep, freshout, indepout, resets>>

NextDeque == Push

SpecDeque == InitDeque /\ [][NextDeque]_vars

----------------------------------------------------------------------------
(* The caller of the combinators: a CompoundMover over one or two          *)
(* operands, a CompositeMover chaining two movers, and mover << num.  It   *)
(* feeds, resets, and assigns the combinator's patient attribute.          *)

OperandCfgs ==
  {[cls |-> "MovingSum", n |-> MaxLen], [cls |-> "const", value |-> int(1)]}
  \cup {[cls |-> "Delayer", n |-> 1, patient |-> b] : b \in BOOLEAN}

StageCfgs ==
  {[cls |-> "MovingSum", n |-> MaxLen],
   [cls |-> "MLRS", n |-> MaxLen, mlri |-> FALSE, patient |-> FALSE]}
  \cup {[cls |-> "Delayer", n |-> 1, patient |-> b] : b \in BOOLEAN}
  \cup {[cls |-> "EMA", n |-> 1, mstd |-> FALSE, patient |-> b] : b \in BOOLEAN}

CompoundCfgs ==
  {[cls |-> "CompoundMover", function |-> f, movers |-> <<a, b>>] :
     f \in {"add", "sub"}, a \in OperandCfgs, b \in OperandCfgs}
  \cup {[cls |-> "CompoundMover", function |-> "neg", movers |-> <<a>>] :
          a \in OperandCfgs}

CompositeCfgs ==
  {[cls |-> "CompositeMover", movers |-> <<a, b>>] :
     a \in StageCfgs, b \in StageCfgs}
  \cup {[cls |-> "lshift", mover |-> a, num |-> k] :
          a \in StageCfgs, k \in Lens}

InitComb == cfg \in CompoundCfgs \cup CompositeCfgs /\ InitObj

\* combinator.patient = b
Assign ==
  /\ \E b \in BOOLEAN : obj' = setattr_patient(obj, b)
  /\ last' = "assign"
  /\ UNCHANGED <<cfg, fresh, indep, hist, out, freshout, indepout, resets>>

NextComb == Feed \/ Reset \/ Assign

SpecComb == InitComb /\ [][NextComb]_vars

\* the same combinators, fed and reset only
SpecCombFed == InitComb /\ [][Next]_vars

\* the sequential combinators alone
InitChain == cfg \in CompositeCfgs /\ InitObj

SpecChain == InitChain /\ [][NextComb]_vars

----------------------------------------------------------------------------
(* The caller of a GMA: it feeds powers of two, zero and a negative        *)
(* number, and resets.                                                     *)

GMACfgs ==
  {[cls |-> "GMA", n |-> n, mstd |-> m, patient |-> b] :
     n \in Windows, m \in BOOLEAN, b \in BOOLEAN}

InitGMA == cfg \in GMACfgs /\ InitObj

SpecGMA == InitGMA /\ [][Next]_vars

----------------------------------------------------------------------------
(* The caller of the doctests: an MLRS with intercept, or a plain EMA, of  *)
(* window length up to 3, fed up to DataLen values drawn from the values   *)
(* of the doctest's data, and reset.                                       *)

DataLen == 5

DataCfgs ==
  {[cls |-> "MLRS", n |-> n, mlri |-> TRUE, patient |-> FALSE] : n \in {2, 3}}
  \cup {[cls |-> "EMA", n |-> n, mstd |-> FALSE, patient |-> FALSE] :
          n \in {1, 2, 3}}

\* data = [3, 6, 9, 6, 3] of mlr.py, data = [1, 2, 3, 3, 3] of ma.py
Data(c) ==
  IF c.cls = "MLRS" THEN {int(3), int(6), int(9)}
  ELSE {int(1), int(2), int(3)}

InitData == cfg \in DataCfgs /\ InitObj

FeedData ==
  /\ Len(hist) < DataLen
  /\ \E v \in Data(cfg) :
       /\ CallAll(v)
       /\ \E f \in {Mover_call(fresh, v)} :
            fresh' = f.self /\ freshout' = Result(f)
       /\ hist' = Append(hist, v)
  /\ last' = "feed"
  /\ UNCHANGED <<cfg, resets>>

NextData == FeedData \/ Reset

SpecData == InitData /\ [][NextData]_vars

----------------------------------------------------------------------------
(* The caller of copy(): it feeds and resets a mover, takes a copy of it,  *)
(* and then feeds or resets the two, each value to both of them or to one  *)
(* of them alone.  Here indep holds the copy, fresh is the original as it  *)
(* was when copied, given from then on what the copy is given, and hist    *)
(* is what was fed since the copy was taken.                               *)

CopyFeeds == 2

CopyCfgs ==
  {[cls |-> "EMA", n |-> n, mstd |-> m, patient |-> b] :
     n \in Lens, m \in BOOLEAN, b \in BOOLEAN}
  \cup {[cls |-> "IH_EMA", tau |-> 1, mstd |-> FALSE, patient |-> b] :
          b \in BOOLEAN}
  \cup {[cls |-> "MovingSum", n |-> MaxLen]}

\* what the caller may feed after the copy, o the mover that sets the time
CopyInputs(c, o) ==
  IF c.cls = "IH_EMA"
  THEN {tuple(int(o._time + 1), v) : v \in {int(1), int(MaxVal)}} \cup {None}
  ELSE {int(1), int(MaxVal), None}

InitCopy == cfg \in CopyCfgs /\ InitObj

Before == indep = <<>> /\ (Feed \/ Reset)

\* c = obj.copy(), which raises for a class without __copy__
Copy ==
  /\ indep = <<>>
  /\ \E r \in {copy(obj)} :
       IF r.exc = ""
       THEN indep' = <<r.ret>> /\ indepout' = <<NoCall>> /\ out' = out
       ELSE indep' = indep /\ indepout' = indepout /\ out' = Result(r)
  /\ fresh' = obj
  /\ freshout' = NoCall
  /\ hist' = <<>>
  /\ last' = "copy"
  /\ UNCHANGED <<cfg, obj, resets>>

\* obj(v); c(v)
Together ==
  /\ indep # <<>> /\ last \in {"copy", "together"}
  /\ Len(hist) < CopyFeeds
  /\ \E v \in CopyInputs(cfg, obj) :
       /\ CallAll(v)
       /\ \E f \in {Mover_call(fresh, v)} :
            fresh' = f.self /\ freshout' = Result(f)
       /\ hist' = Append(hist, v)
  /\ last' = "together"
  /\ UNCHANGED <<cfg, resets>>

\* obj(v) alone
AloneOriginal ==
  /\ indep # <<>>
  /\ Len(hist) < CopyFeeds
  /\ \E v \in CopyInputs(cfg, obj) :
       /\ \E r \in {Mover_call(obj, v)} : obj' = r.self /\ out' = Result(r)
       /\ hist' = Append(hist, v)
  /\ last' = "alone"
  /\ UNCHANGED <<cfg, resets, indep, indepout, fresh, freshout>>

\* c(v) alone
AloneCopy ==
  /\ indep # <<>>
  /\ Len(hist) < CopyFeeds
  /\ \E v \in CopyInputs(cfg, indep[1]) :
       /\ \E r \in {Mover_call(indep[1], v)} :
            indep' = <<r.self>> /\ indepout' = <<Result(r)>>
       /\ \E f \in {Mover_call(fresh, v)} :
            fresh' = f.self /\ freshout' = Result(f)
       /\ hist' = Append(hist, v)
  /\ last' = "alone"
  /\ UNCHANGED <<cfg, resets, obj, out>>

NextCopy == Before \/ Copy \/ Together \/ AloneOriginal \/ AloneCopy

SpecCopy == InitCopy /\ [][NextCopy]_vars

----------------------------------------------------------------------------
(* What the claims speak of *)

Range(s) == {s[i] : i \in DOMAIN s}

\* the most recent min(Len(h), n) elements of h
Recent(h, n) ==
  IF n = inf \/ Len(h) <= n THEN h ELSE SubSeq(h, Len(h) - n + 1, Len(h))

SeqMax(s) == CHOOSE x \in Range(s) : \A y \in Range(s) : ~gt(y, x)
SeqMin(s) == CHOOSE x \in Range(s) : \A y \in Range(s) : ~lt(y, x)

RECURSIVE SeqSum(_)
SeqSum(s) == IF s = <<>> THEN int(0) ELSE add(s[1], SeqSum(Tail(s)))

Min(a, b) == IF a < b THEN a ELSE b

----------------------------------------------------------------------------
(* The claims *)

\* C1: after t >= 1 pushes into a MaxQueue (MinQueue) of window length n,
\* the head, which is what MovingMax (MovingMin) returns from that feed,
\* is the maximum (minimum) of the most recent min(t, n) pushed values.
C1_HeadIsWindowExtremum ==
  (cfg.cls \in {"MovingMax", "MovingMin"} /\ last = "feed") =>
    /\ out.exc = ""
    /\ out.ret = IF cfg.cls = "MovingMax" THEN SeqMax(Recent(hist, cfg.n))
                 ELSE SeqMin(Recent(hist, cfg.n))
    /\ head(obj._queue) = out.ret

\* a feed after which the largest value pushed so far has left the window
C1_Witness ==
  /\ cfg.cls = "MovingMax" /\ last = "feed"
  /\ cfg.n # inf /\ Len(hist) > cfg.n
  /\ gt(SeqMax(hist), out.ret)

\* C2: the t-th feed of a MovingSum since construction or the last reset
\* returns the sum of the most recent min(t, n) fed values (of all of them
\* when the window is unbounded).
C2_SumOfWindow ==
  (cfg.cls = "MovingSum" /\ last = "feed") =>
    out = [ret |-> SeqSum(Recent(hist, cfg.n)), exc |-> ""]

\* a feed after a reset, with a non-zero value fallen out of the window
C2_Witness ==
  /\ cfg.cls = "MovingSum" /\ last = "feed" /\ resets > 0
  /\ cfg.n # inf /\ Len(hist) > cfg.n
  /\ out.ret # SeqSum(hist)

ResetClasses ==
  {"MovingSum", "MA", "EMA", "MLRS", "MovingMax", "MovingMin", "Delayer"}

\* C3: after any inputs, the reset signal and then any sequence s give,
\* tick by tick, what an instance freshly constructed with the same
\* configuration gives on s (a value, no value, or the same exception).
C3_ResetEquivalence ==
  (cfg.cls \in ResetClasses /\ resets > 0 /\ last = "feed") =>
    out = freshout

\* a value returned after a reset by an object that still differs from the
\* fresh one in an attribute the reset does not touch
C3_Witness ==
  /\ cfg.cls \in ResetClasses /\ resets > 0 /\ last = "feed"
  /\ obj # fresh
  /\ out.ret # None

\* C5: an EMA is triggered exactly when the updates since the last reset
\* exceed n; a patient one returns no value on the first n feeds after
\* construction or a reset and its statistic on every later feed, a
\* non-patient one its statistic on every feed.
C5_PatientEMA ==
  cfg.cls = "EMA" =>
    /\ getattr_triggered(obj) <=> (Len(hist) > cfg.n)
    /\ last = "feed" =>
         /\ out.exc = ""
         /\ IsNum(obj._mean)
         /\ out.ret = IF cfg.patient /\ Len(hist) <= cfg.n THEN None
                      ELSE IF cfg.mstd
                      THEN tuple(obj._mean, pow_half(obj._var))
                      ELSE obj._mean

\* the first value a patient EMA of the longest period returns after a reset
C5_Witness ==
  /\ cfg.cls = "EMA" /\ cfg.patient /\ cfg.n = MaxLen
  /\ last = "feed" /\ resets > 0
  /\ Len(hist) = cfg.n + 1
  /\ out.ret # None

\* C9: after t pushes into a Deque of capacity m >= 1 its contents are the
\* most recent min(t, m) pushed values in insertion order, and the t-th
\* push returned the value pushed m pushes earlier when t > m and otherwise
\* the deque's marker, which no pushed value equals.
C9_DequeWindow ==
  cfg.cls = "Deque" =>
    /\ Len(obj.items) = Min(Len(hist), cfg.maxlen)
    /\ obj.items = Recent(hist, cfg.maxlen)
    /\ \A i \in DOMAIN hist : hist[i] # obj.none
    /\ last = "push" =>
         /\ out.exc = ""
         /\ out.ret = IF Len(hist) > cfg.maxlen
                      THEN hist[Len(hist) - cfg.maxlen] ELSE obj.none

\* a push into a full deque of the largest capacity, which returned a value
\* that differs from the newest one it held
C9_Witness ==
  /\ cfg.cls = "Deque" /\ cfg.maxlen = MaxLen /\ last = "push"
  /\ Len(hist) > cfg.maxlen + 1
  /\ out.ret = hist[Len(hist) - cfg.maxlen]
  /\ out.ret # hist[Len(hist) - 1]

\* the sum of the weights of the observations in the window of an MA
WindowWeight(o) ==
  SeqSum([i \in DOMAIN o._deque.items |-> o._deque.items[i].b])

\* C10: a feed after which the weights in an MA's window sum to zero
\* returns no value and raises nothing.
C10_ZeroWeightGivesNoValue ==
  (cfg.cls = "MA" /\ last = "feed" /\ WindowWeight(obj) = int(0)) =>
    out = [ret |-> None, exc |-> ""]

\* C6: a patient MA, MLRS, MovingRatio or IH_EMA is triggered from its
\* first successful update until the reset, and so returns its statistic
\* on that feed and on every later one.
C6_PatientTriggersOnUpdate ==
  (/\ cfg.cls \in {"MA", "MLRS", "MovingRatio", "IH_EMA"}
   /\ cfg.patient /\ last = "feed" /\ out.exc = "") =>
    /\ getattr_triggered(obj)
    /\ cfg.cls # "MLRS" => out.ret # None

\* C4: on every tick, resets included, CompoundMover(op, A, B) returns op
\* of what independent instances of A and B return on the same inputs, and
\* the reset signal returns both operands to their zero state.
C4_CompoundIsElementwise ==
  cfg.cls = "CompoundMover" =>
    /\ last = "feed" =>
         out = Result(apply(obj, cfg.function,
                            [i \in DOMAIN indepout |-> indepout[i].ret]))
    /\ last = "reset" =>
         \A i \in DOMAIN indep : obj.movers[i] = indep[i]

\* C7: the patient flag of a CompoundMover is the OR of its operands'
\* flags, and assigning it assigns the same value to every operand.
C7_CompoundPatientIsOr ==
  cfg.cls = "CompoundMover" =>
    /\ getattr_patient(obj) <=>
         \E i \in DOMAIN obj.movers : getattr_patient(obj.movers[i])
    /\ last = "assign" =>
         \A i \in DOMAIN obj.movers :
           getattr_patient(obj.movers[i]) <=> getattr_patient(obj)

\* the movers handed to the constructor of a CompositeMover
Passed(c) ==
  IF c.cls = "lshift" THEN <<New(c.mover), Delayer(c.num, TRUE)>>
  ELSE [i \in DOMAIN c.movers |-> New(c.movers[i])]

\* C8: right after construction a CompositeMover is patient exactly when a
\* mover handed to it was, the construction leaves the flag of each of them
\* as it was, and mover << k is patient.
C8_CompositeInheritsPatience ==
  (cfg.cls \in {"CompositeMover", "lshift"} /\ last = "new") =>
    /\ getattr_patient(obj) <=>
         \E i \in DOMAIN obj.movers : getattr_patient(Passed(cfg)[i])
    /\ \A i \in DOMAIN obj.movers :
         getattr_patient(obj.movers[i]) <=> getattr_patient(Passed(cfg)[i])
    /\ cfg.cls = "lshift" => getattr_patient(obj)

\* what MLRS gives once it has enough data: a slope, or (slope, intercept)
IsSlope(mlri, ret) ==
  IF mlri THEN ret.t = "tuple" /\ IsNum(ret.a) /\ IsNum(ret.b)
  ELSE IsNum(ret)

\* C11: an MLRS of window length n >= 2 (or unbounded) gives no value on
\* the first feed after construction or reset and a slope (a (slope,
\* intercept) pair with mlri) on every later feed: so for what _eat yields
\* on the next feed of any mover, and for what the call returned of a mover
\* constructed without patience.
C11_MLRSNeedsTwo ==
  (cfg.cls = "MLRS" /\ (cfg.n = inf \/ cfg.n >= 2)) =>
    /\ \A v \in Vals : \E e \in {MLRS_eat(obj, v)} :
         /\ e.exc = ""
         /\ IF hist = <<>> THEN e.ret = None ELSE IsSlope(cfg.mlri, e.ret)
    /\ (last = "feed" /\ ~cfg.patient) =>
         /\ out.exc = ""
         /\ IF Len(hist) = 1 THEN out.ret = None
            ELSE IsSlope(cfg.mlri, out.ret)

\* a slope returned after a reset, once a value has fallen out of the window
C11_Witness ==
  /\ cfg.cls = "MLRS" /\ cfg.n = MaxLen /\ ~cfg.patient /\ ~cfg.mlri
  /\ last = "feed" /\ resets > 0
  /\ Len(hist) > cfg.n
  /\ IsNum(out.ret)

\* the residual of the i-th value of the window w, at position i - 1, from
\* the line of slope a and intercept b
Residual(w, a, b, i) == sub(w[i], add(mul(a, int(i - 1)), b))

\* the normal equations of the least-squares line through the values of w
\* at the positions 0 .. Len(w) - 1: the residuals sum to zero, and so do
\* the residuals weighted by their positions
LeastSquares(w, a, b) ==
  /\ SeqSum([i \in DOMAIN w |-> Residual(w, a, b, i)]) = int(0)
  /\ SeqSum([i \in DOMAIN w |-> mul(int(i - 1), Residual(w, a, b, i))]) = int(0)

\* the doctest of MLRS
MLRS_data == <<int(3), int(6), int(9), int(6), int(3)>>
MLRS_doctest ==
  <<None, tuple(int(3), int(3)), tuple(int(3), int(3)),
    tuple(int(0), int(7)), tuple(int(-3), int(9))>>

\* C12: an MLRS with mlri of window length n >= 2 returns, from the second
\* feed on, the least-squares slope and intercept of the values in its
\* window on their positions 0 .. L - 1, L = min(t, n); with n = 3 and fed
\* 3, 6, 9, 6, 3 it returns None, (3, 3), (3, 3), (0, 7), (-3, 9).
C12_MLRSLeastSquares ==
  (cfg.cls = "MLRS" /\ last = "feed") =>
    /\ out.exc = ""
    /\ Len(hist) >= 2 =>
         /\ IsSlope(TRUE, out.ret)
         /\ LeastSquares(Recent(hist, cfg.n), out.ret.a, out.ret.b)
    /\ cfg.n = 3 =>
         \A k \in DOMAIN MLRS_data :
           hist = SubSeq(MLRS_data, 1, k) => out.ret = MLRS_doctest[k]

\* the last feed of the doctest
C12_Witness ==
  /\ cfg.cls = "MLRS" /\ cfg.n = 3 /\ last = "feed"
  /\ hist = MLRS_data
  /\ out.ret = tuple(int(-3), int(9))

\* the exponential average of the values of h with the weight alpha
RECURSIVE EMAOf(_, _)
EMAOf(h, alpha) ==
  IF Len(h) = 1 THEN h[1]
  ELSE add(mul(alpha, h[Len(h)]),
           mul(sub(int(1), alpha), EMAOf(SubSeq(h, 1, Len(h) - 1), alpha)))

\* the doctest of EMA
EMA_data == <<int(1), int(2), int(3), int(3), int(3)>>
EMA_doctest == <<int(1), Num(3, 2), Num(9, 4), Num(21, 8), Num(45, 16)>>

\* C13: with alpha = 2 / (n + 1), the first feed of an EMA after
\* construction or reset returns the value fed, and each later one alpha *
\* value + (1 - alpha) * the mean before; EMA(1) returns the value just fed
\* on every tick, and EMA(3) fed 1, 2, 3, 3, 3 returns 1, 1.5, 2.25, 2.625,
\* 2.8125.
C13_EMARecurrence ==
  (cfg.cls = "EMA" /\ last = "feed") =>
    /\ out = [ret |-> EMAOf(hist, div(int(2), int(cfg.n + 1))), exc |-> ""]
    /\ obj._mean = out.ret
    /\ cfg.n = 1 => out.ret = hist[Len(hist)]
    /\ cfg.n = 3 =>
         \A k \in DOMAIN EMA_data :
           hist = SubSeq(EMA_data, 1, k) => out.ret = EMA_doctest[k]

\* the last feed of the doctest of EMA(3), after a reset
C13_Witness ==
  /\ cfg.cls = "EMA" /\ cfg.n = 3 /\ last = "feed" /\ resets > 0
  /\ hist = EMA_data
  /\ out.ret = Num(45, 16)

\* C14: a copy of an EMA taken after any inputs has the configuration and
\* the state of the original: given the same inputs from then on, the two
\* return the same tick by tick (suppressed returns included) and stay in
\* the same state, and whatever the original is fed or reset with alone,
\* the copy goes on as the original would have from where it was copied.
C14_EMACopy ==
  (cfg.cls = "EMA" /\ indep # <<>>) =>
    /\ indep[1] = fresh
    /\ indepout[1] = freshout
    /\ last \in {"copy", "together"} => indep[1] = obj
    /\ last = "together" => indepout[1] = out

\* a patient EMA, reset, fed and then copied, that returns a value
\* together with its copy
C14_Witness ==
  /\ cfg.cls = "EMA" /\ cfg.patient /\ indep # <<>>
  /\ resets > 0
  /\ last = "together"
  /\ fresh.count > 0 /\ Len(hist) < fresh.count
  /\ out.ret # None
  /\ indepout[1] = out

\* C15: a copy of an IH_EMA taken after at least one observation has the
\* last timestamp and the mean of the original, and the same next
\* (timestamp, value) fed to both returns the same mean.
C15_IHEMACopy ==
  (cfg.cls = "IH_EMA" /\ last = "copy" /\ obj._mean # None) =>
    /\ indep[1]._time = obj._time
    /\ indep[1]._mean = obj._mean
    /\ \A v \in CopyInputs(cfg, obj) \ {None} :
         IH_EMA_eat(indep[1], v).ret = IH_EMA_eat(obj, v).ret

\* C16: an IH_EMA constructed with mstd raises NotImplementedError on
\* every feed, the first observation included, and returns no value; one
\* constructed without mstd never raises it.
C16_IHEMAVarianceUnsupported ==
  (cfg.cls = "IH_EMA" /\ last = "feed") =>
    IF cfg.mstd THEN out = [ret |-> None, exc |-> "NotImplementedError"]
    ELSE out.exc = ""

\* the first observation after a reset of an IH_EMA with mstd that has
\* raised before
C16_Witness ==
  /\ cfg.cls = "IH_EMA" /\ cfg.mstd
  /\ last = "feed" /\ resets > 0 /\ Len(hist) = 1
  /\ out.exc = "NotImplementedError"
  /\ obj._mean # None

\* C18: a MovingMax or MovingMin is never patient, whatever patient it was
\* constructed with: every feed, from the first after construction or
\* reset, returns an extremum and none is suppressed.
C18_ExtremaNeverPatient ==
  cfg.cls \in {"MovingMax", "MovingMin"} =>
    /\ ~getattr_patient(obj)
    /\ last = "feed" => (out.exc = "" /\ IsNum(out.ret))

\* the first feed after a reset of a MovingMax constructed with
\* patient=True
C18_Witness ==
  /\ cfg.cls = "MovingMax" /\ cfg.patient
  /\ last = "feed" /\ resets > 0 /\ Len(hist) = 1
  /\ out.ret = hist[1]

\* C19: on the t-th feed since construction or reset, _eat of a Delayer(n)
\* yields the value fed n feeds earlier when t > n and the first value fed
\* when t <= n; triggered is true exactly from feed n + 1 on, so a patient
\* Delayer returns no value on the first n feeds and the value fed n feeds
\* earlier on every later one.
C19_Delayer ==
  cfg.cls = "Delayer" =>
    /\ getattr_triggered(obj) <=> (Len(hist) > cfg.n)
    /\ \A v \in Vals : \E e \in {Delayer_eat(obj, v)} :
         /\ e.exc = ""
         /\ e.ret = IF Len(hist) + 1 > cfg.n THEN hist[Len(hist) + 1 - cfg.n]
                    ELSE Append(hist, v)[1]
    /\ last = "feed" =>
         /\ out.exc = ""
         /\ out.ret = IF Len(hist) > cfg.n THEN hist[Len(hist) - cfg.n]
                      ELSE IF cfg.patient THEN None
                      ELSE hist[1]

\* a patient Delayer, after a reset, returning a value that is neither the
\* first nor the newest fed
C19_Witness ==
  /\ cfg.cls = "Delayer" /\ cfg.patient
  /\ last = "feed" /\ resets > 0
  /\ Len(hist) > cfg.n + 1
  /\ out.ret = hist[Len(hist) - cfg.n]
  /\ out.ret # hist[1] /\ out.ret # hist[Len(hist)]

\* what MA keeps of a fed value: (value, weight), the weight 1 by default
Pair(v) == IF v.t = "tuple" THEN v ELSE tuple(v, int(1))

\* C20: after every feed of an MA with mstd that returns, the buffer holds
\* the most recent min(t, n) inputs as (value, weight) pairs, and the
\* weighted sum, the weight sum and the weighted square sum are the sums of
\* w * x, w and w * x^2 over the pairs in the buffer.
C20_MASums ==
  (cfg.cls = "MA" /\ cfg.mstd /\ last = "feed" /\ out.exc = "") =>
    /\ obj._deque.items = Recent([i \in DOMAIN hist |-> Pair(hist[i])], cfg.n)
    /\ obj._sum = SeqSum([i \in DOMAIN obj._deque.items |->
                            mul(obj._deque.items[i].b, obj._deque.items[i].a)])
    /\ obj._wsum = SeqSum([i \in DOMAIN obj._deque.items |->
                             obj._deque.items[i].b])
    /\ obj._wssum = SeqSum([i \in DOMAIN obj._deque.items |->
                              mul(obj._deque.items[i].b,
                                  mul(obj._deque.items[i].a,
                                      obj._deque.items[i].a))])

\* a feed, after a reset, that pushed a pair of weight 2 out of the window
C20_Witness ==
  /\ cfg.cls = "MA" /\ cfg.mstd /\ cfg.n # inf
  /\ last = "feed" /\ resets > 0 /\ out.exc = ""
  /\ Len(hist) > cfg.n
  /\ hist[Len(hist) - cfg.n] = tuple(int(MaxVal), int(2))

\* the values of h that are positive
Positives(h) == SelectSeq(h, LAMBDA v : gt(v, int(0)))

\* the result of the last call when the values of s, from the i-th on, are
\* fed one by one, r the result of the call before
RECURSIVE Replay(_, _, _)
Replay(s, i, r) ==
  IF i > Len(s) THEN r ELSE Replay(s, i + 1, Mover_call(r.self, s[i]))

\* C17: a feed of a value that is not positive to a GMA raises ValueError
\* and leaves the mover as it was; every other feed returns what a mover
\* constructed anew returns when fed the positive values alone.
C17_GMADomainError ==
  [][(cfg.cls = "GMA" /\ last' = "feed") =>
       IF gt(hist'[Len(hist')], int(0))
       THEN out' = Result(Replay(Positives(hist'), 1, R(New(cfg), None, "")))
       ELSE obj' = obj /\ out' = [ret |-> None, exc |-> "ValueError"]]_vars

\* a value returned after a reset and after a value out of the domain was
\* fed with the window full
C17_Witness ==
  /\ cfg.cls = "GMA" /\ cfg.n = 1 /\ ~cfg.patient
  /\ last = "feed" /\ resets > 0
  /\ Len(hist) = MaxFeeds
  /\ ~gt(hist[Len(hist) - 1], int(0))
  /\ gt(hist[1], int(0))
  /\ out.exc = "" /\ out.ret # hist[1]

\* C21: after every feed of an MLRS of window length n >= 2, evicting or
\* not, the buffer holds the most recent min(t, n) values and, with L its
\* length and its values v at the positions 0 .. L - 1 (the oldest at 0),
\* _len = L, _x = sum of i, _xx = sum of i^2, _y = sum of v_i, _xy = sum
\* of i * v_i and _slope_den = L * (sum of i^2) - (sum of i)^2.
C21_MLRSSums ==
  (cfg.cls = "MLRS" /\ cfg.n >= 2 /\ last = "feed") =>
    /\ obj._deque.items = Recent(hist, cfg.n)
    /\ obj._len = Len(obj._deque.items)
    /\ int(obj._x) = SeqSum([i \in DOMAIN obj._deque.items |-> int(i - 1)])
    /\ int(obj._xx) =
         SeqSum([i \in DOMAIN obj._deque.items |-> int((i - 1) * (i - 1))])
    /\ obj._y = SeqSum(obj._deque.items)
    /\ obj._xy = SeqSum([i \in DOMAIN obj._deque.items |->
                           mul(int(i - 1), obj._deque.items[i])])
    /\ obj._slope_den =
         sub(mul(int(Len(obj._deque.items)),
                 SeqSum([i \in DOMAIN obj._deque.items |->
                           int((i - 1) * (i - 1))])),
             mul(SeqSum([i \in DOMAIN obj._deque.items |-> int(i - 1)]),
                 SeqSum([i \in DOMAIN obj._deque.items |-> int(i - 1)])))

\* a second eviction in a row, after a reset, of a value that differs from
\* the one fed
C21_Witness ==
  /\ cfg.cls = "MLRS" /\ cfg.n = 3 /\ last = "feed" /\ resets > 0
  /\ Len(hist) = cfg.n + 2
  /\ hist[Len(hist) - cfg.n] # hist[Len(hist)]
  /\ out.exc = ""

\* the pairs (value, index) of the queue q are ordered: the values
\* strictly decreasing in a MaxQueue and strictly increasing in a MinQueue,
\* the indices strictly increasing, from head to tail
Ordered(q) ==
  \A i \in 1..(Len(q._deque) - 1) :
    /\ IF q.cls = "MaxQueue" THEN gt(q._deque[i][1], q._deque[i + 1][1])
       ELSE lt(q._deque[i][1], q._deque[i + 1][1])
    /\ q._deque[i][2] < q._deque[i + 1][2]

\* C22: once a value was pushed into a MaxQueue (MinQueue) of window
\* length n, the stored queue is not empty and holds at most n pairs, its
\* values strictly decrease (increase) and its indices strictly increase
\* from head to tail, and every stored index is one of the last n push
\* indices.
C22_QueueStructure ==
  (cfg.cls \in {"MovingMax", "MovingMin"} /\ obj._queue._index >= 1) =>
    /\ obj._queue._index = Len(hist)
    /\ obj._queue._deque # <<>>
    /\ cfg.n # inf => Len(obj._queue._deque) <= cfg.n
    /\ Ordered(obj._queue)
    /\ \A i \in DOMAIN obj._queue._deque :
         /\ obj._queue._deque[i][2] < obj._queue._index
         /\ cfg.n # inf =>
              obj._queue._deque[i][2] >= obj._queue._index - cfg.n

\* a full queue of the longest window, after a reset and after the window
\* has slid
C22_Witness ==
  /\ cfg.cls = "MovingMax" /\ cfg.n = MaxLen
  /\ last = "feed" /\ resets > 0
  /\ Len(hist) > cfg.n
  /\ Len(obj._queue._deque) = cfg.n

\* what the i-th mover of a chain is called with when the chain is fed v:
\* v itself, or what the mover before it returns
RECURSIVE StageIn(_, _, _)
StageIn(movers, i, v) ==
  IF i = 1 THEN v
  ELSE Mover_call(movers[i - 1], StageIn(movers, i - 1, v)).ret

\* a mover in its zero state: a reset leaves it as it is
InZero(m) == Mover_call(m, None).self = m

\* C23: on every tick of a CompositeMover each stage is called with what
\* the stage before it returned; when that is no value (suppressed, not
\* enough data, or the stage was reset itself) the next stage is fed the
\* reset signal and is in its zero state after the tick, and so the reset
\* signal fed to the chain leaves every stage in its zero state.
C23_NoValueResetsNextStage ==
  [][(cfg.cls \in {"CompositeMover", "lshift"} /\ last' \in {"feed", "reset"})
     => \A v \in {IF last' = "feed" THEN hist'[Len(hist')] ELSE None} :
          /\ \A i \in DOMAIN obj.movers :
               obj'.movers[i] =
                 Mover_call(obj.movers[i], StageIn(obj.movers, i, v)).self
          /\ \A i \in 1..(Len(obj.movers) - 1) :
               StageIn(obj.movers, i + 1, v) = None =>
                 InZero(obj'.movers[i + 1])
          /\ v = None => \A i \in DOMAIN obj.movers : InZero(obj'.movers[i])
    ]_vars

\* after two feeds, a first stage that holds data and whose returns are
\* suppressed, and a second stage in its zero state
C23_Witness ==
  /\ cfg.cls = "CompositeMover" /\ last = "feed" /\ Len(hist) >= 2
  /\ obj.movers[1].cls = "MovingSum"
  /\ getattr_patient(obj.movers[1]) /\ ~getattr_triggered(obj.movers[1])
  /\ ~InZero(obj.movers[1])
  /\ obj.movers[2].cls = "Delayer"
  /\ InZero(obj.movers[2])

\* C24: an MLRS of window length 1 never holds two observations, and every
\* feed of a number returns no value and raises nothing.
C24_MLRSOfOneGivesNoValue ==
  (cfg.cls = "MLRS" /\ cfg.n = 1) =>
    /\ Len(obj._deque.items) <= 1
    /\ last = "feed" => out = [ret |-> None, exc |-> ""]

====
